---- MODULE Spec2Model ----
(***************************************************************************)
(* State-machine model of app/src/main/cpp/native-lib.cpp: the security    *)
(* monitor thread started by JNI_OnLoad, the cached emulator collector     *)
(* detectEmulator, the security level and the JNI boundary entry points.   *)
(*                                                                         *)
(* Threads: the loaders (callers of JNI_OnLoad), the monitor thread        *)
(* ("mon"), one host thread inside a multi-step boundary call ("caller"),  *)
(* and further host threads whose boundary calls are a single access to    *)
(* shared state (setNativeSecurityLevel, nativeSpoofProcessName).          *)
(* A step of a thread is a stretch of code holding at most one write to    *)
(* the shared globals; plain (unlocked) accesses of different threads      *)
(* interleave freely.                                                      *)
(***************************************************************************)
EXTENDS Integers, FiniteSets, Sequences, TLC

\* ---------------------------------------------------------------- bounds
\* Wall clock (seconds) at process start, its granularity and its horizon.
StartClock == 1
TickStep == 30
MaxClock == 70
\* Iterations of the monitor loop explored (concurrent / loop-only runs).
MaxIterConc == 1
MaxIter == 21
\* iterations of the monitor loop when it runs alone: the rotation of the
\* process name is due in iterations 0, 20, 40 and 60
MaxIterRotate == 61
\* Noise buffers explored.
MaxNoise == 2

\* ------------------------------------------------------ program constants
\* native-lib.cpp:172  `now - gLastEmulatorCheck < 60`
EMULATOR_TTL == 60

Loaders == {"L1", "L2", "L3"}
NoHolder == "none"
DEThreads == {"mon", "caller"}

\* native-lib.cpp:370  const char* system_procs[]
system_procs == <<"system_server", "zygote", "media", "surfaceflinger">>
InitialProcName == "app_process"
\* Names a host passes to nativeSpoofProcessName.
HostNames == {"zygote", "com.android.phone"}

\* Arguments a host passes to setNativeSecurityLevel (jint, 32 bit: :457).
INT_MAX == 2147483647
INT_MIN == -INT_MAX - 1
LevelArgs == {INT_MIN, -1, 0, 1, 2, 3, 4, INT_MAX}

VARIABLES
    gSecurityThreadRunning, \* :29
    gSecurityMutex,         \* :31  holder of the mutex, or NoHolder
    gSecurityLevel,         \* :32
    gLastEmulatorCheck,     \* :33
    gIsEmulator,            \* :34
    clock,                  \* time(nullptr)
    envEmulator,            \* what the property/file probe of :179-228 finds
    noiseAllocs,            \* outstanding buffers of obfuscateMemory
    noiseCalls,             \* calls of obfuscateMemory so far
    procName,               \* PR_SET_NAME
    dumpable,               \* PR_SET_DUMPABLE
    cmdline,                \* /proc/self/cmdline
    threadsCreated,         \* pthread_create calls of JNI_OnLoad
    ldpc,                   \* position of each loader in JNI_OnLoad
    mpc,                    \* position of the monitor thread
    check_counter,          \* :332
    rotated,                \* names the loop has passed to spoofProcessName
    mloc,                   \* locals of the iteration (:336-350) and the
                            \* collectors it has called
    mdid,                   \* counter-measures called in the iteration
    mLvlSeen,               \* levels current while the iteration decided
    sleep_time,             \* :377
    cpc, cop,               \* position / entry point of the caller thread
    cloc,                   \* its locals, and the branch of :418-423 it took
    cret,                   \* its return value (or the level it set)
    cLvlSeen,               \* levels current during its call
    de,                     \* detectEmulator frame of each thread
    lastProbeAt             \* `now` of the call that last stored a probe

vars == <<gSecurityThreadRunning, gSecurityMutex, gSecurityLevel,
          gLastEmulatorCheck, gIsEmulator, clock, envEmulator, noiseAllocs,
          noiseCalls, procName, dumpable, cmdline, threadsCreated, ldpc, mpc,
          check_counter, rotated, mloc, mdid, mLvlSeen, sleep_time, cpc, cop, cloc,
          cret, cLvlSeen, de, lastProbeAt>>

\* --------------------------------------------------------------- helpers
NoFrame == [pc |-> "none", now |-> 0, seen |-> 0, probed |-> FALSE,
            result |-> FALSE]
NoMLoc == [traced |-> FALSE, hooked |-> FALSE, in_emulator |-> FALSE,
           in_virtual_env |-> FALSE, timing_anomaly |-> FALSE,
           evaluated |-> {}]
NoDid == [noise |-> FALSE, block |-> FALSE, spoof |-> FALSE]
NoCLoc == [traced |-> FALSE, hooked |-> FALSE, timing_anomaly |-> FALSE,
           in_emulator |-> FALSE, applied |-> 0]

Init ==
    /\ gSecurityThreadRunning = FALSE
    /\ gSecurityMutex = NoHolder
    /\ gSecurityLevel = 1
    /\ gLastEmulatorCheck = 0
    /\ gIsEmulator = FALSE
    /\ clock = StartClock
    /\ envEmulator \in BOOLEAN
    /\ noiseAllocs = 0
    /\ noiseCalls = 0
    /\ procName = InitialProcName
    /\ dumpable = TRUE
    /\ cmdline = InitialProcName
    /\ threadsCreated = 0
    /\ ldpc = [l \in Loaders |-> "l_start"]
    /\ mpc = "m_none"
    /\ check_counter = 0
    /\ rotated = <<>>
    /\ mloc = NoMLoc
    /\ mdid = NoDid
    /\ mLvlSeen = {}
    /\ sleep_time = 0
    /\ cpc = "idle"
    /\ cop = "none"
    /\ cloc = NoCLoc
    /\ cret = 0
    /\ cLvlSeen = {}
    /\ de = [t \in DEThreads |-> NoFrame]
    /\ lastProbeAt = 0

loadVars == <<gSecurityThreadRunning, gSecurityMutex, threadsCreated, ldpc>>
cacheVars == <<gLastEmulatorCheck, gIsEmulator, lastProbeAt>>
osVars == <<noiseAllocs, noiseCalls, procName, dumpable, cmdline>>
monVars == <<mpc, check_counter, rotated, mloc, mdid, mLvlSeen, sleep_time>>
callVars == <<cpc, cop, cloc, cret, cLvlSeen>>
envVars == <<clock, envEmulator>>

\* ------------------------------------------------------------ JNI_OnLoad
\* pthread_mutex_lock(&gSecurityMutex) returns only when nobody holds it.
CanLockBroken(m) == TRUE
CanLock(m) == m = NoHolder

\* :50
OnLoadLock(l) ==
    /\ ldpc[l] = "l_start"
    /\ CanLock(gSecurityMutex)
    /\ gSecurityMutex' = l
    /\ ldpc' = [ldpc EXCEPT ![l] = "l_check"]
    /\ UNCHANGED <<gSecurityThreadRunning, threadsCreated, gSecurityLevel,
                   cacheVars, osVars, monVars, callVars, envVars, de>>

\* :51
OnLoadCheck(l) ==
    /\ ldpc[l] = "l_check"
    /\ ldpc' = [ldpc EXCEPT ![l] =
                  IF ~gSecurityThreadRunning THEN "l_set" ELSE "l_unlock"]
    /\ UNCHANGED <<gSecurityThreadRunning, gSecurityMutex, threadsCreated,
                   gSecurityLevel, cacheVars, osVars, monVars, callVars,
                   envVars, de>>

\* :52-54  the flag is set and the thread created; the model follows the
\* first thread created and counts the others.
OnLoadStart(l) ==
    /\ ldpc[l] = "l_set"
    /\ gSecurityThreadRunning' = TRUE
    /\ threadsCreated' = threadsCreated + 1
    /\ mpc' = IF mpc = "m_none" THEN "m_top" ELSE mpc
    /\ ldpc' = [ldpc EXCEPT ![l] = "l_unlock"]
    /\ UNCHANGED <<gSecurityMutex, gSecurityLevel, cacheVars, osVars,
                   check_counter, rotated, mloc, mdid, mLvlSeen, sleep_time, callVars,
                   envVars, de>>

\* :56-58
OnLoadUnlock(l) ==
    /\ ldpc[l] = "l_unlock"
    /\ gSecurityMutex' = NoHolder
    /\ ldpc' = [ldpc EXCEPT ![l] = "l_done"]
    /\ UNCHANGED <<gSecurityThreadRunning, threadsCreated, gSecurityLevel,
                   cacheVars, osVars, monVars, callVars, envVars, de>>

JNI_OnLoad(l) ==
    \/ OnLoadLock(l)
    \/ OnLoadCheck(l)
    \/ OnLoadStart(l)
    \/ OnLoadUnlock(l)

\* A native method is bound, and can be called, once a load has returned.
LibraryLoaded == \E l \in Loaders : ldpc[l] = "l_done"

\* -------------------------------------------------------- detectEmulator
\* :172  the cached value is used
CacheFreshLate(now, last) == now - last <= EMULATOR_TTL /\ last # 0
CacheFresh(now, last) == now - last < EMULATOR_TTL /\ last # 0

\* :171  time_t now = time(nullptr), on entry
EnterDetect == [pc |-> "check", now |-> clock, seen |-> 0, probed |-> FALSE,
               result |-> FALSE]

\* :172-174
DetectCheck(t) ==
    /\ de[t].pc = "check"
    /\ IF CacheFresh(de[t].now, gLastEmulatorCheck)
         THEN de' = [de EXCEPT ![t].pc = "ret", ![t].result = gIsEmulator,
                               ![t].seen = lastProbeAt]
         ELSE de' = [de EXCEPT ![t].pc = "stamp", ![t].seen = lastProbeAt]
    /\ UNCHANGED <<loadVars, gSecurityLevel, cacheVars, osVars, monVars,
                   callVars, envVars>>

\* :176
DetectStamp(t) ==
    /\ de[t].pc = "stamp"
    /\ gLastEmulatorCheck' = de[t].now
    /\ de' = [de EXCEPT ![t].pc = "probe"]
    /\ UNCHANGED <<loadVars, gSecurityLevel, gIsEmulator, lastProbeAt, osVars,
                   monVars, callVars, envVars>>

\* :177-232  the probe of properties and files, then the store of its result
DetectProbe(t) ==
    /\ de[t].pc = "probe"
    /\ gIsEmulator' = envEmulator
    /\ lastProbeAt' = de[t].now
    /\ de' = [de EXCEPT ![t].pc = "ret", ![t].result = envEmulator,
                        ![t].probed = TRUE]
    /\ UNCHANGED <<loadVars, gSecurityLevel, gLastEmulatorCheck, osVars,
                   monVars, callVars, envVars>>

detectEmulator(t) ==
    \/ DetectCheck(t)
    \/ DetectStamp(t)
    \/ DetectProbe(t)

\* ------------------------------------------------------------ environment
\* A call of detectEmulator takes far less than a step of the clock.
Tick ==
    /\ \A t \in DEThreads : de[t].pc \in {"none", "ret"}
    /\ clock + TickStep <= MaxClock
    /\ clock' = clock + TickStep
    /\ UNCHANGED <<loadVars, gSecurityLevel, cacheVars, osVars, monVars,
                   callVars, envEmulator, de>>

\* ------------------------------------------------------- counter-measures
\* :275-288  outstanding buffers after a call made with n outstanding: the
\* buffer is allocated and, on purpose, never deleted.
obfuscateMemoryFreed(n) == n
obfuscateMemory(n) == n + 1

\* :291-296  the level after setSecurityLevel(level) at level cur
ValidLevelAny(level) == TRUE
ValidLevelUpTo4(level) == level >= 1 /\ level <= 4
ValidLevel(level) == level >= 1 /\ level <= 3
setSecurityLevel(cur, level) == IF ValidLevel(level) THEN level ELSE cur

\* The levels that were current while a thread was between its reads of
\* gSecurityLevel, after a write that leaves the level at new.
SeenByMonitor(new) ==
    IF mpc = "m_lvl2" /\ mLvlSeen # {} THEN mLvlSeen \cup {new} ELSE mLvlSeen
SeenByCaller(new) ==
    IF cop = "isBeingAnalyzed" /\ cpc \in {"c_emu", "c_lvl2"}
      THEN cLvlSeen \cup {new} ELSE cLvlSeen

\* The OS side of the counter-measures called in one step: obfuscateMemory,
\* blockPtraceAttach (:92-101) and spoofProcessName(name) (:299-312); prctl
\* succeeds or fails.
CounterMeasures(doNoise, doBlock, doSpoof, name) ==
    /\ doNoise => noiseAllocs < MaxNoise
    /\ noiseAllocs' = IF doNoise THEN obfuscateMemory(noiseAllocs)
                                 ELSE noiseAllocs
    /\ noiseCalls' = IF doNoise THEN noiseCalls + 1 ELSE noiseCalls
    /\ \E ok \in (IF doBlock THEN BOOLEAN ELSE {FALSE}) :
          dumpable' = IF ok THEN FALSE ELSE dumpable
    /\ \E ok \in (IF doSpoof THEN BOOLEAN ELSE {FALSE}) :
          procName' = IF ok THEN name ELSE procName
    /\ cmdline' = cmdline

\* ------------------------------------------------- securityMonitorThread
\* :342 / :349 / :368
EmulatorDue(k) == k % 10 = 0
TimingDueEvery10th(k) == k % 10 = 0
TimingDue(k) == k % 5 = 0
SpoofDue(k) == k % 20 = 0
\* :371-372  system_procs[check_counter % 4]
SpoofName(k) == system_procs[(k % 4) + 1]
\* :368-373  the names the loop has passed to spoofProcessName, after
\* iteration k has got past :368
Rotated(record, k) ==
    IF record /\ SpoofDue(k) THEN Append(rotated, SpoofName(k)) ELSE rotated

\* :354
Threat(l) == l.traced \/ l.hooked \/ l.timing_anomaly \/ l.in_emulator
             \/ l.in_virtual_env

\* :378-383
SleepTimeForNoBreak(level) ==
    CASE level = 3 -> 300
      [] level = 2 -> 300
      [] level = 1 -> 300
      [] OTHER -> 300
SleepTimeFor(level) ==
    CASE level = 3 -> 100
      [] level = 2 -> 200
      [] level = 1 -> 300
      [] OTHER -> 300

\* :334, :342-343  the loop condition, then the call of detectEmulator on
\* every 10th iteration
MonitorTop ==
    /\ mpc = "m_top"
    /\ IF ~gSecurityThreadRunning
         THEN mpc' = "m_exit" /\ de' = de
         ELSE IF EmulatorDue(check_counter)
           THEN mpc' = "m_emu" /\ de' = [de EXCEPT !["mon"] = EnterDetect]
           ELSE mpc' = "m_decide" /\ de' = de
    /\ UNCHANGED <<loadVars, gSecurityLevel, cacheVars, osVars, check_counter, rotated,
                   mloc, mdid, mLvlSeen, sleep_time, callVars, envVars>>

\* :343  detectEmulator has returned
MonitorEmuReturn ==
    /\ mpc = "m_emu"
    /\ de["mon"].pc = "ret"
    /\ mloc' = [mloc EXCEPT !.in_emulator = de["mon"].result,
                            !.evaluated = {"in_emulator"}]
    /\ de' = [de EXCEPT !["mon"] = NoFrame]
    /\ mpc' = "m_decide"
    /\ UNCHANGED <<loadVars, gSecurityLevel, cacheVars, osVars, check_counter, rotated,
                   mdid, mLvlSeen, sleep_time, callVars, envVars>>

\* :336-337, :344, :350, :354-365  The collectors other than detectEmulator
\* read no state of the program: their outcomes are inputs of the iteration.
\* Then the threat decision and the first read of gSecurityLevel (:357).
MonitorDecide(record) ==
    /\ mpc = "m_decide"
    /\ \E tr \in BOOLEAN, hk \in BOOLEAN,
          ve \in (IF EmulatorDue(check_counter) THEN BOOLEAN ELSE {FALSE}),
          ta \in (IF TimingDue(check_counter) THEN BOOLEAN ELSE {FALSE}) :
        LET l == [traced |-> tr, hooked |-> hk,
                  in_emulator |-> mloc.in_emulator,
                  in_virtual_env |-> ve, timing_anomaly |-> ta,
                  evaluated |->
                      mloc.evaluated \cup {"traced", "hooked"}
                      \cup (IF EmulatorDue(check_counter)
                              THEN {"in_virtual_env"} ELSE {})
                      \cup (IF TimingDue(check_counter)
                              THEN {"timing_anomaly"} ELSE {})]
            spoof == SpoofDue(check_counter)
        IN /\ mloc' = IF record THEN l ELSE NoMLoc
           /\ mLvlSeen' = IF record THEN {gSecurityLevel} ELSE {}
           /\ IF ~Threat(l)
                THEN /\ mpc' = "m_sleep"
                     /\ mdid' = NoDid
                     /\ UNCHANGED <<osVars, rotated>>
                ELSE IF gSecurityLevel >= 3
                  THEN /\ mpc' = "m_sleep"
                       /\ mdid' = IF record
                                    THEN [noise |-> TRUE, block |-> TRUE,
                                          spoof |-> spoof]
                                    ELSE NoDid
                       /\ CounterMeasures(TRUE, TRUE, spoof,
                                          SpoofName(check_counter))
                       /\ rotated' = Rotated(record, check_counter)
                  ELSE /\ mpc' = "m_lvl2"
                       /\ mdid' = NoDid
                       /\ UNCHANGED <<osVars, rotated>>
    /\ UNCHANGED <<loadVars, gSecurityLevel, cacheVars, check_counter,
                   sleep_time, callVars, envVars, de>>

\* :362-373  the second read of gSecurityLevel, then the process name
MonitorLevel2Assign(record) ==
    /\ mpc = "m_lvl2"
    /\ gSecurityLevel' = 2
    /\ mdid' = NoDid
    /\ CounterMeasures(FALSE, TRUE, SpoofDue(check_counter),
                       SpoofName(check_counter))
    /\ mpc' = "m_sleep"
    /\ UNCHANGED <<loadVars, cacheVars, check_counter, rotated, mloc, mLvlSeen,
                   sleep_time, callVars, envVars, de>>
MonitorLevel2Abort(record) ==
    /\ mpc = "m_lvl2"
    /\ mdid' = NoDid
    /\ \E ok \in BOOLEAN :
          /\ dumpable' = IF ok THEN FALSE ELSE dumpable
          /\ mpc' = IF ok THEN "m_sleep" ELSE "m_exit"
    /\ UNCHANGED <<loadVars, gSecurityLevel, cacheVars, noiseAllocs,
                   noiseCalls, procName, cmdline, check_counter, rotated, mloc,
                   mLvlSeen, sleep_time, callVars, envVars, de>>
MonitorLevel2(record) ==
    /\ mpc = "m_lvl2"
    /\ LET block == gSecurityLevel >= 2
           spoof == SpoofDue(check_counter)
       IN /\ mdid' = IF record
                       THEN [noise |-> FALSE, block |-> block, spoof |-> spoof]
                       ELSE NoDid
          /\ CounterMeasures(FALSE, block, spoof, SpoofName(check_counter))
    /\ rotated' = Rotated(record, check_counter)
    /\ mpc' = "m_sleep"
    /\ UNCHANGED <<loadVars, gSecurityLevel, cacheVars, check_counter, mloc,
                   mLvlSeen, sleep_time, callVars, envVars, de>>

\* :377-383
MonitorSleepTime ==
    /\ mpc = "m_sleep"
    /\ sleep_time' = SleepTimeFor(gSecurityLevel)
    /\ mpc' = "m_usleep"
    /\ mloc' = NoMLoc
    /\ mdid' = NoDid
    /\ mLvlSeen' = {}
    /\ UNCHANGED <<loadVars, gSecurityLevel, cacheVars, osVars, check_counter, rotated,
                   callVars, envVars, de>>

\* :385-386
MonitorSleep(maxIter) ==
    /\ mpc = "m_usleep"
    /\ check_counter < maxIter
    /\ check_counter' = check_counter + 1
    /\ sleep_time' = 0
    /\ mpc' = "m_top"
    /\ UNCHANGED <<loadVars, gSecurityLevel, cacheVars, osVars, rotated, mloc,
                   mdid, mLvlSeen, callVars, envVars, de>>

\* With record, the locals of the iteration (dead after :354) and the
\* counter-measures it called are kept until the iteration goes to sleep.
securityMonitorThread(maxIter, record) ==
    \/ MonitorTop
    \/ detectEmulator("mon")
    \/ MonitorEmuReturn
    \/ MonitorDecide(record)
    \/ MonitorLevel2(record)
    \/ MonitorSleepTime
    \/ MonitorSleep(maxIter)

\* -------------------------------------------------- boundary entry points
\* :418-424  the value isBeingAnalyzedNative returns in each branch
AnalyzedMaximum(l) ==
    l.traced \/ l.hooked \/ l.timing_anomaly \/ l.in_emulator
AnalyzedEnhancedNoTiming(l) == l.traced \/ l.hooked
AnalyzedEnhanced(l) == l.traced \/ l.hooked \/ l.timing_anomaly
AnalyzedNormal(l) == l.traced \/ l.hooked

AsJBoolean(b) == IF b THEN 1 ELSE 0

\* :461-464  isRunningInEmulator calls detectEmulator
CallIsRunningInEmulator ==
    /\ LibraryLoaded
    /\ cpc = "idle"
    /\ cop' = "isRunningInEmulator"
    /\ cpc' = "c_emu"
    /\ de' = [de EXCEPT !["caller"] = EnterDetect]
    /\ UNCHANGED <<loadVars, gSecurityLevel, cacheVars, osVars, monVars,
                   cloc, cret, cLvlSeen, envVars>>

\* :409-415  isBeingAnalyzedNative calls detectEmulator
CallIsBeingAnalyzed ==
    /\ LibraryLoaded
    /\ cpc = "idle"
    /\ cop' = "isBeingAnalyzed"
    /\ cpc' = "c_emu"
    /\ cLvlSeen' = {gSecurityLevel}
    /\ de' = [de EXCEPT !["caller"] = EnterDetect]
    /\ UNCHANGED <<loadVars, gSecurityLevel, cacheVars, osVars, monVars,
                   cloc, cret, envVars>>

\* :438-445  initializeNativeSecurity: blockPtraceAttach, then detectEmulator
CallInitializeSecurity ==
    /\ LibraryLoaded
    /\ cpc = "idle"
    /\ cop' = "initializeNativeSecurity"
    /\ cpc' = "c_emu"
    /\ CounterMeasures(FALSE, TRUE, FALSE, procName)
    /\ de' = [de EXCEPT !["caller"] = EnterDetect]
    /\ UNCHANGED <<loadVars, gSecurityLevel, cacheVars, monVars, cloc, cret,
                   cLvlSeen, envVars>>

\* :456-459  setNativeSecurityLevel(level) on the caller thread; cloc keeps
\* the level found, cret the level left.
CallSetSecurityLevel(level) ==
    /\ LibraryLoaded
    /\ cpc = "idle"
    /\ cop' = "setNativeSecurityLevel"
    /\ cpc' = "c_done"
    /\ cloc' = [arg |-> level, before |-> gSecurityLevel]
    /\ gSecurityLevel' = setSecurityLevel(gSecurityLevel, level)
    /\ cret' = gSecurityLevel'
    /\ mLvlSeen' = SeenByMonitor(gSecurityLevel')
    /\ UNCHANGED <<loadVars, cacheVars, osVars, mpc, check_counter, rotated, mloc,
                   mdid, sleep_time, cLvlSeen, envVars, de>>

\* detectEmulator has returned to the entry point:
\*   :463      isRunningInEmulator returns its value;
\*   :412-418  isBeingAnalyzedNative takes the other collectors' outcomes
\*             (inputs of the call) and reads gSecurityLevel a first time;
\*   :446-453  initializeNativeSecurity sets the level.
CallerEmuReturn ==
    /\ cpc = "c_emu"
    /\ de["caller"].pc = "ret"
    /\ de' = [de EXCEPT !["caller"] = NoFrame]
    /\ \/ /\ cop = "isRunningInEmulator"
          /\ cret' = AsJBoolean(de["caller"].result)
          /\ cpc' = "c_done"
          /\ UNCHANGED <<gSecurityLevel, cloc, cLvlSeen, mLvlSeen>>
       \/ /\ cop = "isBeingAnalyzed"
          /\ \E tr \in BOOLEAN, hk \in BOOLEAN, ta \in BOOLEAN :
               LET l == [traced |-> tr, hooked |-> hk, timing_anomaly |-> ta,
                         in_emulator |-> de["caller"].result,
                         applied |-> IF gSecurityLevel >= 3 THEN 3 ELSE 0]
               IN /\ cloc' = l
                  /\ IF gSecurityLevel >= 3
                       THEN /\ cret' = AsJBoolean(AnalyzedMaximum(l))
                            /\ cpc' = "c_done"
                       ELSE /\ cret' = cret
                            /\ cpc' = "c_lvl2"
          /\ UNCHANGED <<gSecurityLevel, cLvlSeen, mLvlSeen>>
       \/ /\ cop = "initializeNativeSecurity"
          /\ \E hk \in BOOLEAN :
               /\ cloc' = [NoCLoc EXCEPT !.hooked = hk,
                                         !.in_emulator = de["caller"].result]
               /\ gSecurityLevel' =
                    setSecurityLevel(gSecurityLevel,
                        IF de["caller"].result \/ hk THEN 3 ELSE 1)
          /\ cret' = gSecurityLevel'
          /\ mLvlSeen' = SeenByMonitor(gSecurityLevel')
          /\ cpc' = "c_done"
          /\ UNCHANGED cLvlSeen
    /\ UNCHANGED <<loadVars, cacheVars, osVars, mpc, check_counter, rotated, mloc,
                   mdid, sleep_time, cop, envVars>>

\* :420-424  the second read of gSecurityLevel
CallerLevel2 ==
    /\ cpc = "c_lvl2"
    /\ cret' = AsJBoolean(IF gSecurityLevel >= 2 THEN AnalyzedEnhanced(cloc)
                                                ELSE AnalyzedNormal(cloc))
    /\ cloc' = [cloc EXCEPT !.applied = IF gSecurityLevel >= 2 THEN 2 ELSE 1]
    /\ cpc' = "c_done"
    /\ UNCHANGED <<loadVars, gSecurityLevel, cacheVars, osVars, monVars, cop,
                   cLvlSeen, envVars, de>>

\* The entry point returns to the host.
CallerReturn ==
    /\ cpc = "c_done"
    /\ cpc' = "idle"
    /\ cop' = "none"
    /\ cloc' = NoCLoc
    /\ cret' = 0
    /\ cLvlSeen' = {}
    /\ UNCHANGED <<loadVars, gSecurityLevel, cacheVars, osVars, monVars,
                   envVars, de>>

\* :456-459  setNativeSecurityLevel(level) on another host thread
SetNativeSecurityLevel(level) ==
    /\ LibraryLoaded
    /\ gSecurityLevel' = setSecurityLevel(gSecurityLevel, level)
    /\ mLvlSeen' = SeenByMonitor(gSecurityLevel')
    /\ cLvlSeen' = SeenByCaller(gSecurityLevel')
    /\ UNCHANGED <<loadVars, cacheVars, osVars, mpc, check_counter, rotated, mloc,
                   mdid, sleep_time, cpc, cop, cloc, cret, envVars, de>>

\* :395-401  nativeSpoofProcessName(name) on another host thread
NativeSpoofProcessName(name) ==
    /\ LibraryLoaded
    /\ CounterMeasures(FALSE, FALSE, TRUE, name)
    /\ UNCHANGED <<loadVars, gSecurityLevel, cacheVars, monVars, callVars,
                   envVars, de>>

\* :403-406, :315-328  nativeHideProcessInfo on another host thread: the
\* command line is overwritten if /proc/self/cmdline opens for writing.
NativeHideProcessInfo ==
    /\ LibraryLoaded
    /\ \E opened \in BOOLEAN :
          cmdline' = IF opened THEN "system_server" ELSE cmdline
    /\ UNCHANGED <<loadVars, gSecurityLevel, cacheVars, noiseAllocs,
                   noiseCalls, procName, dumpable, monVars, callVars,
                   envVars, de>>

\* :466-469  hasHookFramework on another host thread: isHookingFrameworkPresent
\* (:104-137) reads /proc/self/maps and the loaded libraries, and writes
\* nothing.
HasHookFramework ==
    /\ LibraryLoaded
    /\ UNCHANGED vars

\* :275-288  obfuscateMemory called directly
InjectMemoryNoise ==
    /\ CounterMeasures(TRUE, FALSE, FALSE, procName)
    /\ UNCHANGED <<loadVars, gSecurityLevel, cacheVars, monVars, callVars,
                   envVars, de>>

Caller ==
    \/ CallIsRunningInEmulator
    \/ CallIsBeingAnalyzed
    \/ CallInitializeSecurity
    \/ \E level \in LevelArgs : CallSetSecurityLevel(level)
    \/ detectEmulator("caller")
    \/ CallerEmuReturn
    \/ CallerLevel2
    \/ CallerReturn

\* ---------------------------------------------------------- specifications
\* The boundary entry points running against the monitor thread, after one
\* load of the library.
Next ==
    \/ JNI_OnLoad("L1")
    \/ securityMonitorThread(MaxIterConc, FALSE)
    \/ Caller
    \/ \E level \in {1, 2, 3} : SetNativeSecurityLevel(level)
    \/ Tick

Spec == Init /\ [][Next]_vars

\* The same, with the calls of detectEmulator one after the other.
InDetect(t) == de[t].pc \notin {"none", "ret"}
NextSeq == Next /\ ~(InDetect("mon")' /\ InDetect("caller")')

SpecSeq == Init /\ [][NextSeq]_vars

\* JNI_OnLoad run by several threads at once.
NextLoad ==
    \/ \E l \in Loaders : JNI_OnLoad(l)
    \/ securityMonitorThread(MaxIterConc, FALSE)
    \/ \E level \in LevelArgs : SetNativeSecurityLevel(level)
    \/ Tick

SpecLoad == Init /\ [][NextLoad]_vars

\* The monitor loop over its iterations, against level changes.
NextLoop ==
    \/ JNI_OnLoad("L1")
    \/ securityMonitorThread(MaxIter, TRUE)
    \/ \E level \in LevelArgs : SetNativeSecurityLevel(level)
    \/ \E name \in HostNames : NativeSpoofProcessName(name)
    \/ InjectMemoryNoise

SpecLoop == Init /\ [][NextLoop]_vars

\* The first iterations of the loop against level changes and renames, the
\* monitor thread being scheduled again and again: a step of the thread that
\* stays possible is eventually taken.  The iterations are few enough for
\* the bound on outstanding noise buffers never to be met.
NextFair ==
    \/ JNI_OnLoad("L1")
    \/ securityMonitorThread(MaxIterConc, TRUE)
    \/ \E level \in LevelArgs : SetNativeSecurityLevel(level)
    \/ \E name \in HostNames : NativeSpoofProcessName(name)

SpecFair ==
    /\ Init
    /\ [][NextFair]_vars
    /\ WF_vars(securityMonitorThread(MaxIterConc, TRUE))

\* The monitor loop alone, over enough iterations for the rotation of the
\* process name to be due four times.
NextRotate ==
    \/ JNI_OnLoad("L1")
    \/ securityMonitorThread(MaxIterRotate, TRUE)

SpecRotate == Init /\ [][NextRotate]_vars

\* Every boundary entry point running against the monitor thread.
NextEntry ==
    \/ JNI_OnLoad("L1")
    \/ securityMonitorThread(MaxIterConc, FALSE)
    \/ Caller
    \/ \E name \in HostNames : NativeSpoofProcessName(name)
    \/ NativeHideProcessInfo
    \/ HasHookFramework

SpecEntry == Init /\ [][NextEntry]_vars

\* ================================================================ claims

\* C1: however many threads run JNI_OnLoad and however they interleave, at
\* most one monitor thread is created; once every start attempt has
\* returned exactly one has been created.
C1_AtMostOneMonitor ==
    /\ threadsCreated <= 1
    /\ (\A l \in Loaders : ldpc[l] = "l_done") => threadsCreated = 1

C1_Witness ==
    /\ \A l \in Loaders : ldpc[l] = "l_done"
    /\ threadsCreated = 1
    /\ check_counter >= 1

\* C2: a call of detectEmulator, by the monitor loop or a boundary caller,
\* returns either the result of its own probe or a cached value that a probe
\* stored less than EMULATOR_TTL seconds before; never the initial default
\* that no probe computed.
C2_NeverStale ==
    \A t \in DEThreads :
        de[t].pc = "ret" =>
            \/ de[t].probed
            \/ /\ de[t].seen # 0
               /\ de[t].now - de[t].seen < EMULATOR_TTL

\* C3: with calls of detectEmulator one after the other, a call made less
\* than EMULATOR_TTL seconds after the last probe returns that probe's value
\* without probing; a call made later, or before any probe, probes and
\* returns what it found; and between calls the cache holds the last probe's
\* result with the time of the call that made it.
C3_SequentialCache ==
    /\ \A t \in DEThreads :
          de[t].pc = "ret" =>
              IF de[t].seen # 0 /\ de[t].now - de[t].seen < EMULATOR_TTL
                THEN ~de[t].probed /\ de[t].result = envEmulator
                ELSE de[t].probed /\ de[t].result = envEmulator
    /\ (\A t \in DEThreads : ~InDetect(t)) =>
          /\ gLastEmulatorCheck = lastProbeAt
          /\ lastProbeAt # 0 => gIsEmulator = envEmulator

\* A negative result, returned from the cache one clock step after the probe.
C3_Witness ==
    \E t \in DEThreads :
        /\ de[t].pc = "ret"
        /\ ~de[t].probed
        /\ de[t].seen # 0
        /\ de[t].now - de[t].seen = TickStep
        /\ de[t].result = FALSE

\* C4: in every reachable state the security level is 1, 2 or 3.
C4_LevelInRange == gSecurityLevel \in {1, 2, 3}

\* An out-of-range request made at level 3, the monitor loop iterating.
C4_Witness ==
    /\ cpc = "c_done"
    /\ cop = "setNativeSecurityLevel"
    /\ cloc.arg = 4
    /\ gSecurityLevel = 3
    /\ check_counter >= 1

\* C5: setNativeSecurityLevel(L) leaves the level as it found it when L is
\* outside {1,2,3}, and leaves it at L otherwise.
C5_SetLevel ==
    (cpc = "c_done" /\ cop = "setNativeSecurityLevel") =>
        cret = IF cloc.arg \in {1, 2, 3} THEN cloc.arg ELSE cloc.before

C5_Witness ==
    /\ cpc = "c_done"
    /\ cop = "setNativeSecurityLevel"
    /\ cloc.arg = INT_MAX
    /\ cloc.before = 2
    /\ cret = 2

\* C6: when the level is the same L throughout a call of isBeingAnalyzed,
\* the call returns Traced \/ Hooked at L = 1, Traced \/ Hooked \/ Timing at
\* L = 2, and the disjunction of all four signals at L = 3.
C6_AnalyzedPerLevel ==
    (cpc = "c_done" /\ cop = "isBeingAnalyzed") =>
        \A L \in {1, 2, 3} :
            cLvlSeen = {L} =>
                cret = AsJBoolean(
                    \/ cloc.traced
                    \/ cloc.hooked
                    \/ (L >= 2 /\ cloc.timing_anomaly)
                    \/ (L >= 3 /\ cloc.in_emulator))

\* At Normal, Timing and Emulated are both true and the answer is false.
C6_Witness ==
    /\ cpc = "c_done"
    /\ cop = "isBeingAnalyzed"
    /\ cLvlSeen = {1}
    /\ ~cloc.traced /\ ~cloc.hooked
    /\ cloc.timing_anomaly /\ cloc.in_emulator
    /\ cret = 0

\* C7: initializeNativeSecurity sets the level to 3 if the environment is an
\* emulator or the hook collector reports a hook, and to 1 otherwise.
C7_InitLevel ==
    (cpc = "c_done" /\ cop = "initializeNativeSecurity") =>
        cret = IF envEmulator \/ cloc.hooked THEN 3 ELSE 1

\* C8: when an iteration has applied its counter-measures, they are those of
\* a level that was current while it decided: with a threat, noise and
\* attach-blocking at 3, attach-blocking alone at 2, neither at 1; without a
\* threat, neither.
C8_MeasuresByLevel ==
    mpc = "m_sleep" =>
        IF Threat(mloc)
          THEN \E L \in mLvlSeen :
                  /\ mdid.noise = (L = 3)
                  /\ mdid.block = (L >= 2)
          ELSE ~mdid.noise /\ ~mdid.block

\* C9: an iteration whose counter is divisible by 20 has rotated the process
\* name when it goes to sleep, whatever it detected.
C9_RotationEvery20th ==
    (mpc = "m_sleep" /\ check_counter % 20 = 0) => mdid.spoof

\* C10: as many noise buffers are outstanding as obfuscateMemory was called,
\* and their number never decreases.
C10_NoiseAccumulates ==
    /\ [](noiseAllocs = noiseCalls)
    /\ [][noiseAllocs' >= noiseAllocs]_vars

\* Two buffers outstanding, the second from an iteration at Maximum.
C10_Witness ==
    /\ mpc = "m_sleep"
    /\ mdid.noise
    /\ noiseAllocs = MaxNoise
    /\ noiseCalls = MaxNoise

\* C11: the step that ends an iteration picks the sleep of the level current
\* at that step: 100 at 3, 200 at 2, 300 at 1 and at any other value.
C11_SleepOfCurrentLevel ==
    [][(mpc = "m_sleep" /\ mpc' = "m_usleep") =>
          sleep_time' = IF gSecurityLevel = 3 THEN 100
                        ELSE IF gSecurityLevel = 2 THEN 200
                        ELSE 300]_vars

\* initializeNativeSecurity has just set Maximum and the iteration that ends
\* next sleeps 100 ms.
C11_Witness ==
    /\ cpc = "c_done"
    /\ cop = "initializeNativeSecurity"
    /\ cret = 3
    /\ gSecurityLevel = 3
    /\ mpc = "m_usleep"
    /\ sleep_time = 100

\* C12: a step that writes gSecurityLevel, and a step in which the monitor
\* loop reads gSecurityThreadRunning (from "m_top") or gSecurityLevel (from
\* "m_decide", "m_lvl2", "m_sleep"), is taken while gSecurityMutex is held.
C12_AccessUnderMutex ==
    [][(\/ gSecurityLevel' # gSecurityLevel
        \/ (mpc \in {"m_top", "m_decide", "m_lvl2", "m_sleep"} /\ mpc' # mpc))
          => gSecurityMutex # NoHolder]_vars

\* C13: an iteration that has injected memory noise had a true signal other
\* than the timing anomaly.
C13_TimingAloneNoNoise ==
    (mpc = "m_sleep" /\ mdid.noise) =>
        mloc.traced \/ mloc.hooked \/ mloc.in_emulator \/ mloc.in_virtual_env

\* C14: when iteration k goes to sleep it has called the trace and hook
\* collectors, the emulator and virtual-environment collectors exactly if
\* k mod 10 = 0 and the timing collector exactly if k mod 5 = 0; a signal
\* whose collector it has not called is false, and it has applied a
\* counter-measure only if a signal it has evaluated is true.
C14_CollectorsByIteration ==
    mpc = "m_sleep" =>
        /\ mloc.evaluated =
               {"traced", "hooked"}
               \cup (IF check_counter % 10 = 0
                       THEN {"in_emulator", "in_virtual_env"} ELSE {})
               \cup (IF check_counter % 5 = 0
                       THEN {"timing_anomaly"} ELSE {})
        /\ \A sig \in {"traced", "hooked", "in_emulator", "in_virtual_env",
                        "timing_anomaly"} \ mloc.evaluated : ~mloc[sig]
        /\ (mdid # NoDid) => \E sig \in mloc.evaluated : mloc[sig]

\* Iteration 5: the timing collector is called and reports an anomaly, the
\* emulator and virtual-environment collectors are not called, and the
\* anomaly alone brings attach-blocking.
C14_Witness ==
    /\ mpc = "m_sleep"
    /\ check_counter = 5
    /\ mloc.evaluated = {"traced", "hooked", "timing_anomaly"}
    /\ mloc.timing_anomaly
    /\ ~mloc.traced /\ ~mloc.hooked
    /\ mdid.block

\* C15: gSecurityLevel changes only in a step of setNativeSecurityLevel or in
\* the step of initializeNativeSecurity that sets the level; the steps of
\* the monitor loop, of isBeingAnalyzed, isRunningInEmulator,
\* hasHookFramework, nativeSpoofProcessName and nativeHideProcessInfo leave
\* it as it is.
C15_LevelFrame ==
    [][gSecurityLevel' # gSecurityLevel =>
          \/ (cpc = "idle" /\ cop' = "setNativeSecurityLevel")
          \/ (cop = "initializeNativeSecurity" /\ cpc = "c_emu"
                /\ cpc' = "c_done")]_vars

\* isBeingAnalyzed returns with the level at 3, as it was set, after an
\* iteration of the loop has run and attaching was blocked, the process
\* renamed and its command line hidden.
C15_Witness ==
    /\ cop = "isBeingAnalyzed"
    /\ cpc = "c_done"
    /\ gSecurityLevel = 3
    /\ check_counter = MaxIterConc
    /\ dumpable = FALSE
    /\ procName \in HostNames
    /\ cmdline = "system_server"

\* C16: gSecurityThreadRunning, once set, stays set and the loop never
\* leaves its while; every iteration k that starts reaches its sleep and is
\* followed by iteration k + 1, whatever the signals are and whether prctl
\* succeeds or fails.
C16_LoopNeverStops ==
    /\ [](mpc # "m_exit")
    /\ [][gSecurityThreadRunning => gSecurityThreadRunning']_vars
    /\ \A k \in 0 .. MaxIterConc :
          (mpc = "m_top" /\ check_counter = k)
              ~> (mpc = "m_usleep" /\ check_counter = k)
    /\ \A k \in 0 .. (MaxIterConc - 1) :
          (mpc = "m_usleep" /\ check_counter = k) ~> (check_counter = k + 1)

\* An iteration after the first goes to sleep after a threat at Maximum:
\* it has injected noise and called blockPtraceAttach, and no prctl call
\* has succeeded so far.
C16_Witness ==
    /\ mpc = "m_sleep"
    /\ check_counter = MaxIterConc
    /\ mdid.noise
    /\ mdid.block
    /\ dumpable
    /\ procName = InitialProcName

\* C17: the rotation uses each of the four names of system_procs: once the
\* loop has rotated the name four times, every name of the table has been
\* selected in one of its iterations.
C17_RotationUsesEveryName ==
    Len(rotated) >= 4 =>
        \A n \in 1 .. 4 :
            \E i \in 1 .. Len(rotated) : rotated[i] = system_procs[n]

\* C18: when isBeingAnalyzed returns, the branch of :418-423 whose formula
\* it has applied is that of a level that was current during the call, and
\* the value returned is that formula of the signals.
C18_FormulaOfCurrentLevel ==
    (cpc = "c_done" /\ cop = "isBeingAnalyzed") =>
        /\ cloc.applied \in cLvlSeen
        /\ cret = AsJBoolean(
               \/ cloc.traced
               \/ cloc.hooked
               \/ (cloc.applied >= 2 /\ cloc.timing_anomaly)
               \/ (cloc.applied >= 3 /\ cloc.in_emulator))

====
